---- MODULE Spec2Model ----
(***************************************************************************)
(* Model of solution.py: the load -> combine -> serialize pipeline that    *)
(* joins students to rooms, with its JSON and XML loaders and serializers. *)
(*                                                                         *)
(* Python values are records of one shape, so that values of different     *)
(* Python types can be compared: an int, a str (a tuple of characters),    *)
(* None, or a list.  A str is a tuple of one-character strings; "CR",      *)
(* "LF" and "NUL" stand for the carriage return, the line feed and U+0000. *)
(***************************************************************************)
EXTENDS Integers, Sequences, FiniteSets, TLC

\* ---------------------------------------------------------------- bounds

\* Longest student list and room list drawn for the core specification.
MaxStudents == 3
MaxRooms == 2
\* Most records in one input file of the pipeline specification.
MaxRecords == 2

\* ----------------------------------------------------------- Python values

PyInt(k) == [t |-> "int", n |-> k, s |-> <<>>, items |-> <<>>]
PyStr(cs) == [t |-> "str", n |-> 0, s |-> cs, items |-> <<>>]
None == [t |-> "null", n |-> 0, s |-> <<>>, items |-> <<>>]
PyList(xs) == [t |-> "list", n |-> 0, s |-> <<>>, items |-> xs]

IsInt(v) == v.t = "int"
IsStr(v) == v.t = "str"

\* Python truth value: 0, "", None and [] are false.
Truthy(v) ==
    CASE v.t = "int" -> v.n # 0
      [] v.t = "str" -> v.s # <<>>
      [] v.t = "list" -> v.items # <<>>
      [] OTHER -> FALSE

\* hash(v) succeeds: a list is unhashable and cannot be a dict key.
Hashable(v) == v.t # "list"

Digits == <<"0", "1", "2", "3", "4", "5", "6", "7", "8", "9">>
IsDigit(c) == \E i \in 1..10 : Digits[i] = c
DigitValue(c) == (CHOOSE i \in 1..10 : Digits[i] = c) - 1
IsSpace(c) == c \in {" ", "LF", "CR", "TAB"}

RECURSIVE StrOfNat(_)
StrOfNat(k) == IF k < 10 THEN <<Digits[k + 1]>>
               ELSE StrOfNat(k \div 10) \o <<Digits[(k % 10) + 1]>>

\* str(v) as the XML serializer applies it to an id.
StrOf(v) ==
    CASE v.t = "int" -> IF v.n < 0 THEN <<"-">> \o StrOfNat(-v.n) ELSE StrOfNat(v.n)
      [] v.t = "str" -> v.s
      [] v.t = "null" -> <<"N", "o", "n", "e">>
      [] OTHER -> <<"[", "]">>

RECURSIVE LStrip(_)
LStrip(cs) == IF cs # <<>> /\ IsSpace(Head(cs)) THEN LStrip(Tail(cs)) ELSE cs

RECURSIVE RStrip(_)
RStrip(cs) == IF cs # <<>> /\ IsSpace(cs[Len(cs)])
              THEN RStrip(SubSeq(cs, 1, Len(cs) - 1)) ELSE cs

RECURSIVE NatOfDigits(_, _)
NatOfDigits(cs, acc) ==
    IF cs = <<>> THEN acc
    ELSE IF Head(cs) = "_" THEN NatOfDigits(Tail(cs), acc)
    ELSE NatOfDigits(Tail(cs), 10 * acc + DigitValue(Head(cs)))

\* A decimal literal body: digits, with single underscores between digits.
IsLiteralBody(cs) ==
    /\ cs # <<>>
    /\ IsDigit(cs[1])
    /\ IsDigit(cs[Len(cs)])
    /\ \A i \in 1..Len(cs) : IsDigit(cs[i]) \/ cs[i] = "_"
    /\ \A i \in 1..(Len(cs) - 1) : ~(cs[i] = "_" /\ cs[i + 1] = "_")

\* int(v): [ok, n, err].  None is a TypeError; a str is stripped, may
\* carry one sign, and must then be a decimal literal, else a ValueError.
IntOf(v) ==
    IF v.t = "int" THEN [ok |-> TRUE, n |-> v.n, err |-> ""]
    ELSE IF v.t # "str" THEN [ok |-> FALSE, n |-> 0, err |-> "TypeError"]
    ELSE LET body == RStrip(LStrip(v.s))
             signed == body # <<>> /\ Head(body) \in {"+", "-"}
             digits == IF signed THEN Tail(body) ELSE body
         IN  IF IsLiteralBody(digits)
             THEN [ok |-> TRUE,
                   n |-> IF signed /\ Head(body) = "-"
                         THEN -NatOfDigits(digits, 0) ELSE NatOfDigits(digits, 0),
                   err |-> ""]
             ELSE [ok |-> FALSE, n |-> 0, err |-> "ValueError"]

\* ------------------------------------------------------------- data model

\* Student(id, name, room_id) and Room(id, name, students=[]).
Student(id, name, room_id) == [id |-> id, name |-> name, room_id |-> room_id]
Room(id, name) == [id |-> id, name |-> name, students |-> <<>>]

\* An exception: its class and the parts of its message.
Error(kind, msg) == [kind |-> kind, msg |-> msg]
NoError == Error("", <<>>)

\* What a load returns or raises.
Loaded(students, rooms) ==
    [ok |-> TRUE, students |-> students, rooms |-> rooms, err |-> NoError]
LoadFailed(err) == [ok |-> FALSE, students |-> <<>>, rooms |-> <<>>, err |-> err]

\* A dict is a tuple of <<key, value>> pairs in insertion order.
HasKey(d, k) == \E i \in 1..Len(d) : d[i][1] = k
Get(d, k) == d[CHOOSE i \in 1..Len(d) : d[i][1] = k][2]

\* The index of the first element of xs that fails ok, or 0.
FirstBad(xs) ==
    IF \E i \in 1..Len(xs) : ~xs[i].ok
    THEN CHOOSE i \in 1..Len(xs) :
            ~xs[i].ok /\ \A j \in 1..(i - 1) : xs[j].ok
    ELSE 0

\* A file is [kind, body]: kind "json" with a tuple of dicts, kind "xml"
\* with the root element as written, or kind "garbage" (neither).
JsonFile(items) == [kind |-> "json", body |-> items]
XmlFile(root) == [kind |-> "xml", body |-> root]
Garbage == [kind |-> "garbage", body |-> <<>>]

\* ------------------------------------------------------------ JSON loader

\* load_json(path): json.load of the file's text.
load_json(file) ==
    IF file.kind = "json" THEN [ok |-> TRUE, val |-> file.body, err |-> NoError]
    ELSE [ok |-> FALSE, val |-> <<>>, err |-> Error("JSONDecodeError", <<>>)]

\* Student(s["id"], s["name"], s["room"]): a missing key is a KeyError;
\* the value's type is not looked at.
JsonStudent(s) ==
    IF HasKey(s, "id") /\ HasKey(s, "name") /\ HasKey(s, "room")
    THEN [ok |-> TRUE, val |-> Student(Get(s, "id"), Get(s, "name"), Get(s, "room")),
          err |-> NoError]
    ELSE [ok |-> FALSE, val |-> <<>>, err |-> Error("KeyError", <<>>)]

\* Room(r["id"], r["name"]).
JsonRoom(r) ==
    IF HasKey(r, "id") /\ HasKey(r, "name")
    THEN [ok |-> TRUE, val |-> Room(Get(r, "id"), Get(r, "name")), err |-> NoError]
    ELSE [ok |-> FALSE, val |-> <<>>, err |-> Error("KeyError", <<>>)]

\* JsonDataLoader.load: both files are decoded, then the students are
\* built, then the rooms; the first exception ends the load.
JsonDataLoader_load(students_path, rooms_path, files) ==
    LET students_json == load_json(files[students_path])
        rooms_json == load_json(files[rooms_path])
        ss == [i \in 1..Len(students_json.val) |-> JsonStudent(students_json.val[i])]
        rs == [i \in 1..Len(rooms_json.val) |-> JsonRoom(rooms_json.val[i])]
    IN  IF ~students_json.ok THEN LoadFailed(students_json.err)
        ELSE IF ~rooms_json.ok THEN LoadFailed(rooms_json.err)
        ELSE IF FirstBad(ss) # 0 THEN LoadFailed(ss[FirstBad(ss)].err)
        ELSE IF FirstBad(rs) # 0 THEN LoadFailed(rs[FirstBad(rs)].err)
        ELSE Loaded([i \in 1..Len(ss) |-> ss[i].val], [i \in 1..Len(rs) |-> rs[i].val])

\* ---------------------------------------------------------- XML documents

\* An element in memory: its tag, its text (a Python value) and children.
Element(tag, text, children) == [tag |-> tag, text |-> text, children |-> children]
\* An element as written in a document: the text is character data.
Written(tag, content, children) ==
    [tag |-> tag, content |-> content, children |-> children]

\* Mutant of EscapeCdata: an & is written as it is.
RECURSIVE EscapeCdata_KeepsAmp(_)
EscapeCdata_KeepsAmp(cs) ==
    IF cs = <<>> THEN <<>>
    ELSE (CASE Head(cs) = "<" -> <<"&", "l", "t", ";">>
            [] Head(cs) = ">" -> <<"&", "g", "t", ";">>
            [] OTHER -> <<Head(cs)>>) \o EscapeCdata_KeepsAmp(Tail(cs))

\* _escape_cdata: & < > are written as entities, every other character
\* as it is.
RECURSIVE EscapeCdata(_)
EscapeCdata(cs) ==
    IF cs = <<>> THEN <<>>
    ELSE (CASE Head(cs) = "&" -> <<"&", "a", "m", "p", ";">>
            [] Head(cs) = "<" -> <<"&", "l", "t", ";">>
            [] Head(cs) = ">" -> <<"&", "g", "t", ";">>
            [] OTHER -> <<Head(cs)>>) \o EscapeCdata(Tail(cs))

StartsWith(cs, pre) == Len(cs) >= Len(pre) /\ SubSeq(cs, 1, Len(pre)) = pre
Drop(cs, k) == SubSeq(cs, k + 1, Len(cs))

AmpEntity == <<"&", "a", "m", "p", ";">>
LtEntity == <<"&", "l", "t", ";">>
GtEntity == <<"&", "g", "t", ";">>

\* Character data the parser accepts: no U+0000, no bare <, and every &
\* starts one of the entities the serializer writes.
RECURSIVE ContentOk(_)
ContentOk(cs) ==
    IF cs = <<>> THEN TRUE
    ELSE IF Head(cs) \in {"NUL", "<"} THEN FALSE
    ELSE IF Head(cs) = "&"
         THEN \E e \in {AmpEntity, LtEntity, GtEntity} :
                 StartsWith(cs, e) /\ ContentOk(Drop(cs, Len(e)))
    ELSE ContentOk(Tail(cs))

\* The text the parser reports for accepted character data: entities are
\* replaced, and CR LF and a lone CR both become LF.
RECURSIVE DecodeContent(_)
DecodeContent(cs) ==
    IF cs = <<>> THEN <<>>
    ELSE IF StartsWith(cs, AmpEntity) THEN <<"&">> \o DecodeContent(Drop(cs, 5))
    ELSE IF StartsWith(cs, LtEntity) THEN <<"<">> \o DecodeContent(Drop(cs, 4))
    ELSE IF StartsWith(cs, GtEntity) THEN <<">">> \o DecodeContent(Drop(cs, 4))
    ELSE IF StartsWith(cs, <<"CR", "LF">>) THEN <<"LF">> \o DecodeContent(Drop(cs, 2))
    ELSE IF Head(cs) = "CR" THEN <<"LF">> \o DecodeContent(Tail(cs))
    ELSE <<Head(cs)>> \o DecodeContent(Tail(cs))

RECURSIVE WrittenOk(_)
WrittenOk(w) ==
    /\ ContentOk(w.content)
    /\ \A i \in 1..Len(w.children) : WrittenOk(w.children[i])

\* The element the parser builds: an element without character data has
\* the text None.
RECURSIVE ParsedElement(_)
ParsedElement(w) ==
    Element(w.tag,
            IF w.content = <<>> THEN None ELSE PyStr(DecodeContent(w.content)),
            [i \in 1..Len(w.children) |-> ParsedElement(w.children[i])])

\* ET.parse(xml_path).getroot(), or ET.ParseError.
ET_parse(file) ==
    IF file.kind = "xml" /\ WrittenOk(file.body)
    THEN [ok |-> TRUE, root |-> ParsedElement(file.body)]
    ELSE [ok |-> FALSE, root |-> <<>>]

\* el.find(tag): the first child with that tag, or None.
HasChild(el, tag) == \E i \in 1..Len(el.children) : el.children[i].tag = tag
Find(el, tag) ==
    el.children[CHOOSE i \in 1..Len(el.children) :
                   /\ el.children[i].tag = tag
                   /\ \A j \in 1..(i - 1) : el.children[j].tag # tag]

\* int(el.find(tag).text): AttributeError without the child, else int()'s
\* own TypeError or ValueError.
IntField(el, tag) ==
    IF ~HasChild(el, tag) THEN [ok |-> FALSE, n |-> 0, err |-> "AttributeError"]
    ELSE IntOf(Find(el, tag).text)

\* ------------------------------------------------------------- XML loader

\* Student(id=int(el.find("id").text), name=el.find("name").text,
\*         room_id=int(el.find("room").text)), the fields in that order.
XmlStudent(el) ==
    LET id == IntField(el, "id")
        room == IntField(el, "room")
    IN  IF ~id.ok THEN [ok |-> FALSE, val |-> <<>>, err |-> Error(id.err, <<>>)]
        ELSE IF ~HasChild(el, "name")
        THEN [ok |-> FALSE, val |-> <<>>, err |-> Error("AttributeError", <<>>)]
        ELSE IF ~room.ok THEN [ok |-> FALSE, val |-> <<>>, err |-> Error(room.err, <<>>)]
        ELSE [ok |-> TRUE, err |-> NoError,
              val |-> Student(PyInt(id.n), Find(el, "name").text, PyInt(room.n))]

\* Room(id=int(el.find("id").text), name=el.find("name").text).
XmlRoom(el) ==
    LET id == IntField(el, "id")
    IN  IF ~id.ok THEN [ok |-> FALSE, val |-> <<>>, err |-> Error(id.err, <<>>)]
        ELSE IF ~HasChild(el, "name")
        THEN [ok |-> FALSE, val |-> <<>>, err |-> Error("AttributeError", <<>>)]
        ELSE [ok |-> TRUE, err |-> NoError,
              val |-> Room(PyInt(id.n), Find(el, "name").text)]

\* Mutant of XmlParseError: the message does not name the file.
XmlParseError_Generic(xml_path) == Error("ValueError", <<"Error parsing XML file">>)

\* The ValueError that replaces ET.ParseError.
XmlParseError(xml_path) == Error("ValueError", <<"Error parsing XML file: ", xml_path>>)

\* parse_students(xml_path): every child of the root, whatever its tag.
parse_students(file, xml_path) ==
    LET tree == ET_parse(file)
        els == IF tree.ok THEN tree.root.children ELSE <<>>
        ss == [i \in 1..Len(els) |-> XmlStudent(els[i])]
    IN  IF ~tree.ok THEN [ok |-> FALSE, val |-> <<>>, err |-> XmlParseError(xml_path)]
        ELSE IF FirstBad(ss) # 0
        THEN [ok |-> FALSE, val |-> <<>>, err |-> ss[FirstBad(ss)].err]
        ELSE [ok |-> TRUE, val |-> [i \in 1..Len(ss) |-> ss[i].val], err |-> NoError]

\* parse_rooms(xml_path).
parse_rooms(file, xml_path) ==
    LET tree == ET_parse(file)
        els == IF tree.ok THEN tree.root.children ELSE <<>>
        rs == [i \in 1..Len(els) |-> XmlRoom(els[i])]
    IN  IF ~tree.ok THEN [ok |-> FALSE, val |-> <<>>, err |-> XmlParseError(xml_path)]
        ELSE IF FirstBad(rs) # 0
        THEN [ok |-> FALSE, val |-> <<>>, err |-> rs[FirstBad(rs)].err]
        ELSE [ok |-> TRUE, val |-> [i \in 1..Len(rs) |-> rs[i].val], err |-> NoError]

\* XmlDataLoader.load: the students file first, then the rooms file.
XmlDataLoader_load(students_path, rooms_path, files) ==
    LET students == parse_students(files[students_path], students_path)
        rooms == parse_rooms(files[rooms_path], rooms_path)
    IN  IF ~students.ok THEN LoadFailed(students.err)
        ELSE IF ~rooms.ok THEN LoadFailed(rooms.err)
        ELSE Loaded(students.val, rooms.val)

\* The loader main picks for an input format.
DataLoader_load(input_format, students_path, rooms_path, files) ==
    IF input_format = "json" THEN JsonDataLoader_load(students_path, rooms_path, files)
    ELSE XmlDataLoader_load(students_path, rooms_path, files)

\* --------------------------------------------------------------- combiner

\* Mutant of MapAppend: the student is put in front of its group.
MapAppend_Prepend(map, key, student) ==
    IF HasKey(map, key)
    THEN [i \in 1..Len(map) |->
            IF map[i][1] = key THEN <<key, <<student>> \o map[i][2]>> ELSE map[i]]
    ELSE Append(map, <<key, <<student>>>>)

\* student_map[key].append(student) on a defaultdict(list).
MapAppend(map, key, student) ==
    IF HasKey(map, key)
    THEN [i \in 1..Len(map) |->
            IF map[i][1] = key THEN <<key, Append(map[i][2], student)>> ELSE map[i]]
    ELSE Append(map, <<key, <<student>>>>)

\* for student in students: student_map[student.room_id].append(student)
RECURSIVE BuildStudentMap(_, _)
BuildStudentMap(students, map) ==
    IF students = <<>> THEN map
    ELSE BuildStudentMap(Tail(students),
                         MapAppend(map, Head(students).room_id, Head(students)))

\* student_map.get(key, []).
MapGet(map, key) == IF HasKey(map, key) THEN Get(map, key) ELSE <<>>

\* Mutant of combine: a room without students is left out of the result.
combine_DropsEmptyRooms(students, rooms) ==
    LET student_map == BuildStudentMap(students, <<>>)
    IN  IF \E i \in 1..Len(students) : ~Hashable(students[i].room_id)
        THEN [ok |-> FALSE, rooms |-> <<>>, err |-> Error("TypeError", <<>>)]
        ELSE IF \E i \in 1..Len(rooms) : ~Hashable(rooms[i].id)
        THEN [ok |-> FALSE, rooms |-> <<>>, err |-> Error("TypeError", <<>>)]
        ELSE [ok |-> TRUE, err |-> NoError,
              rooms |-> SelectSeq(
                  [i \in 1..Len(rooms) |->
                      [rooms[i] EXCEPT !.students = MapGet(student_map, rooms[i].id)]],
                  LAMBDA r : r.students # <<>>)]

\* Mutant of combine: a room without a group gets every student.
combine_DefaultsToAll(students, rooms) ==
    LET student_map == BuildStudentMap(students, <<>>)
    IN  IF \E i \in 1..Len(students) : ~Hashable(students[i].room_id)
        THEN [ok |-> FALSE, rooms |-> <<>>, err |-> Error("TypeError", <<>>)]
        ELSE IF \E i \in 1..Len(rooms) : ~Hashable(rooms[i].id)
        THEN [ok |-> FALSE, rooms |-> <<>>, err |-> Error("TypeError", <<>>)]
        ELSE [ok |-> TRUE, err |-> NoError,
              rooms |-> [i \in 1..Len(rooms) |->
                           [rooms[i] EXCEPT !.students =
                               IF HasKey(student_map, rooms[i].id)
                               THEN Get(student_map, rooms[i].id) ELSE students]]]

\* The grouping of combine_rooms, lines 144-151: hashing a list, as a
\* room_id or as a room's id, is a TypeError.
combine(students, rooms) ==
    LET student_map == BuildStudentMap(students, <<>>)
    IN  IF \E i \in 1..Len(students) : ~Hashable(students[i].room_id)
        THEN [ok |-> FALSE, rooms |-> <<>>, err |-> Error("TypeError", <<>>)]
        ELSE IF \E i \in 1..Len(rooms) : ~Hashable(rooms[i].id)
        THEN [ok |-> FALSE, rooms |-> <<>>, err |-> Error("TypeError", <<>>)]
        ELSE [ok |-> TRUE, err |-> NoError,
              rooms |-> [i \in 1..Len(rooms) |->
                           [rooms[i] EXCEPT !.students = MapGet(student_map, rooms[i].id)]]]

\* ------------------------------------------------------------ serializers

\* Mutant of AsDictStudent: the room identifier under the loader's key.
AsDictStudent_RoomKey(s) == << <<"id", s.id>>, <<"name", s.name>>, <<"room", s.room_id>> >>

\* asdict(student), asdict(room): the fields in declaration order.
AsDictStudent(s) == << <<"id", s.id>>, <<"name", s.name>>, <<"room_id", s.room_id>> >>
AsDictRoom(r) ==
    << <<"id", r.id>>, <<"name", r.name>>,
       <<"students", PyList([i \in 1..Len(r.students) |-> AsDictStudent(r.students[i])])>> >>

\* JsonDataSerializer.serialize: the text is kept as the JSON value it
\* denotes (dumps and load are inverse on the values modelled here).
JsonDataSerializer_serialize(combined_rooms) ==
    [ok |-> TRUE, err |-> NoError,
     text |-> JsonFile([i \in 1..Len(combined_rooms) |-> AsDictRoom(combined_rooms[i])])]

\* The element tree of XmlDataSerializer.serialize, lines 107-129.
XmlStudentElement(s) ==
    Element("Student", None,
            << Element("id", PyStr(StrOf(s.id)), <<>>),
               Element("name", s.name, <<>>),
               Element("room", PyStr(StrOf(s.room_id)), <<>>) >>)
XmlRoomElement(r) ==
    Element("Room", None,
            << Element("id", PyStr(StrOf(r.id)), <<>>),
               Element("name", r.name, <<>>),
               Element("Students", None,
                       [i \in 1..Len(r.students) |-> XmlStudentElement(r.students[i])]) >>)
XmlRoomsElement(combined_rooms) ==
    Element("Rooms", None,
            [i \in 1..Len(combined_rooms) |-> XmlRoomElement(combined_rooms[i])])

\* ET.tostring writes a text only when it is true, and then it must be a str.
RECURSIVE Serializable(_)
Serializable(el) ==
    /\ Truthy(el.text) => IsStr(el.text)
    /\ \A i \in 1..Len(el.children) : Serializable(el.children[i])

RECURSIVE WrittenElement(_)
WrittenElement(el) ==
    Written(el.tag,
            IF Truthy(el.text) THEN EscapeCdata(el.text.s) ELSE <<>>,
            [i \in 1..Len(el.children) |-> WrittenElement(el.children[i])])

\* ET.tostring(root, encoding="unicode"), or its TypeError.
ET_tostring(root) ==
    IF Serializable(root)
    THEN [ok |-> TRUE, text |-> XmlFile(WrittenElement(root)), err |-> NoError]
    ELSE [ok |-> FALSE, text |-> Garbage, err |-> Error("TypeError", <<>>)]

XmlDataSerializer_serialize(combined_rooms) == ET_tostring(XmlRoomsElement(combined_rooms))

\* The serializer main picks for an output format.
DataSerializer_serialize(output_format, combined_rooms) ==
    IF output_format = "json" THEN JsonDataSerializer_serialize(combined_rooms)
    ELSE XmlDataSerializer_serialize(combined_rooms)

\* ------------------------------------------------------------------ state

VARIABLES
    pc,              \* the position of the run
    args,            \* the parsed command line
    files,           \* the file system: path -> file
    students,        \* the students the loader returned
    rooms,           \* the rooms the loader returned
    combined_rooms,  \* what combine_rooms returned
    output_data,     \* what serialize returned
    stdout,          \* what has been printed
    err,             \* the exception that ended the run
    reloaded         \* the loads of output_data by the loader of its format

vars == <<pc, args, files, students, rooms, combined_rooms, output_data, stdout,
          err, reloaded>>

\* The tuples over S of length at most k.
RECURSIVE SeqsUpTo(_, _)
SeqsUpTo(S, k) ==
    IF k = 0 THEN {<<>>}
    ELSE LET shorter == SeqsUpTo(S, k - 1)
         IN  shorter \cup {Append(xs, x) : xs \in shorter, x \in S}

\* ----------------------------------------------------------- input files

Absent == [kind |-> "absent", body |-> <<>>]
\* A destination that holds earlier content, and one that cannot be opened.
OldContent == [kind |-> "old", body |-> <<>>]
Directory == [kind |-> "directory", body |-> <<>>]

StudentsPath == "students_file"
RoomsPath == "rooms_file"
DestPath == "out_file"

JsonStudentRecords ==
    { << <<"id", PyInt(1)>>, <<"name", PyStr(<<"A", "n">>)>>, <<"room", PyInt(10)>> >>,
      << <<"id", PyInt(2)>>, <<"name", PyStr(<<"B", "o">>)>>, <<"room", PyInt(99)>> >>,
      << <<"id", PyInt(3)>>, <<"name", PyStr(<<"C", "y">>)>> >>,
      << <<"id", PyStr(<<"x">>)>>, <<"name", PyInt(7)>>, <<"room", None>> >>,
      << <<"id", PyInt(4)>>, <<"name", PyStr(<<"D", "i">>)>>, <<"room", PyList(<<>>)>> >> }

JsonRoomRecords ==
    { << <<"id", PyInt(10)>>, <<"name", PyStr(<<"A", "l">>)>> >>,
      << <<"id", PyInt(20)>> >>,
      << <<"name", PyStr(<<"G", "a">>)>> >>,
      << <<"id", PyStr(<<"x">>)>>, <<"name", PyInt(7)>> >> }

Leaf(tag, content) == Written(tag, content, <<>>)

XmlStudentElements ==
    { Written("Student", <<>>,
              <<Leaf("id", <<"1">>), Leaf("name", <<"A", "n">>), Leaf("room", <<"1", "0">>)>>),
      Written("Student", <<>>,
              <<Leaf("id", <<"2">>), Leaf("name", <<>>), Leaf("room", <<" ", "9", "9">>)>>),
      Written("Student", <<>>,
              <<Leaf("name", <<"C", "y">>), Leaf("room", <<"1", "0">>)>>),
      Written("Student", <<>>,
              <<Leaf("id", <<"x">>), Leaf("name", <<"D", "i">>), Leaf("room", <<"1", "0">>)>>),
      Written("Student", <<>>,
              <<Leaf("id", <<"5">>), Leaf("name", <<"E", "d">>), Leaf("room", <<>>)>>) }

XmlRoomElements ==
    { Written("Room", <<>>, <<Leaf("id", <<"1", "0">>), Leaf("name", <<"A", "l">>)>>),
      Written("Room", <<>>, <<Leaf("id", <<"2", "0">>), Leaf("name", <<>>)>>),
      Written("Room", <<>>, <<Leaf("id", <<"3", "0">>)>>),
      Written("Room", <<>>, <<Leaf("id", <<>>), Leaf("name", <<"D", "e">>)>>) }

\* A document whose character data the parser rejects.
XmlBadToken == XmlFile(Written("Rooms", <<"NUL">>, <<>>))

InputFiles(input_format) ==
    IF input_format = "json"
    THEN { [p \in {StudentsPath, RoomsPath} |-> IF p = StudentsPath THEN s ELSE r] :
             s \in {Garbage} \cup {JsonFile(xs) : xs \in SeqsUpTo(JsonStudentRecords, MaxRecords)},
             r \in {Garbage} \cup {JsonFile(xs) : xs \in SeqsUpTo(JsonRoomRecords, MaxRecords)} }
    ELSE { [p \in {StudentsPath, RoomsPath} |-> IF p = StudentsPath THEN s ELSE r] :
             s \in {Garbage, XmlBadToken} \cup
                   {XmlFile(Written("Students", <<>>, xs)) :
                       xs \in SeqsUpTo(XmlStudentElements, MaxRecords)},
             r \in {Garbage, XmlBadToken} \cup
                   {XmlFile(Written("Rooms", <<>>, xs)) :
                       xs \in SeqsUpTo(XmlRoomElements, MaxRecords)} }

\* The command lines argparse accepts: both formats are one of its choices.
Formats == {"json", "xml"}
Args(input_format, output_format, output_destination) ==
    [input_format |-> input_format, output_format |-> output_format,
     students_file |-> StudentsPath, rooms_file |-> RoomsPath,
     output_destination |-> output_destination]

NotReloaded == [as_rooms |-> LoadFailed(NoError), as_students |-> LoadFailed(NoError)]

Init ==
    /\ pc = "start"
    /\ \E i \in Formats, o \in Formats, d \in {"", DestPath} :
          args = Args(i, o, d)
    /\ \E in \in InputFiles(args.input_format),
          dest \in IF args.output_destination = "" THEN {Absent}
                   ELSE {Absent, OldContent, Directory} :
          files = [p \in {StudentsPath, RoomsPath, DestPath} |->
                      IF p = DestPath THEN dest ELSE in[p]]
    /\ students = <<>>
    /\ rooms = <<>>
    /\ combined_rooms = <<>>
    /\ output_data = Garbage
    /\ stdout = <<>>
    /\ err = NoError
    /\ reloaded = NotReloaded

\* ---------------------------------------------------------------- actions

\* combine_rooms, line 142: the load by the loader of the input format.
Load ==
    /\ pc = "start"
    /\ LET r == DataLoader_load(args.input_format, args.students_file,
                                args.rooms_file, files)
       IN  IF r.ok
           THEN /\ pc' = "loaded"
                /\ students' = r.students
                /\ rooms' = r.rooms
                /\ err' = err
           ELSE /\ pc' = "load_failed"
                /\ err' = r.err
                /\ UNCHANGED <<students, rooms>>
    /\ UNCHANGED <<args, files, combined_rooms, output_data, stdout, reloaded>>

\* combine_rooms, lines 144-151.
Combine ==
    /\ pc = "loaded"
    /\ LET r == combine(students, rooms)
       IN  IF r.ok
           THEN /\ pc' = "combined"
                /\ combined_rooms' = r.rooms
                /\ err' = err
           ELSE /\ pc' = "combine_failed"
                /\ err' = r.err
                /\ combined_rooms' = combined_rooms
    /\ UNCHANGED <<args, files, students, rooms, output_data, stdout, reloaded>>

\* Mutant of Serialize: the destination is opened for writing before the
\* serializer runs, so a failing serializer leaves it empty.
Serialize_OpensDestinationFirst ==
    /\ pc = "combined"
    /\ LET r == DataSerializer_serialize(args.output_format, combined_rooms)
       IN  IF r.ok
           THEN /\ pc' = "serialized"
                /\ output_data' = r.text
                /\ err' = err
           ELSE /\ pc' = "serialize_failed"
                /\ err' = r.err
                /\ output_data' = output_data
    /\ files' = IF args.output_destination # ""
                   /\ files[args.output_destination].kind # "directory"
                THEN [files EXCEPT ![args.output_destination] =
                         [kind |-> "empty", body |-> <<>>]]
                ELSE files
    /\ UNCHANGED <<args, students, rooms, combined_rooms, stdout, reloaded>>

\* main, lines 194-204: the serializer of the output format.
Serialize ==
    /\ pc = "combined"
    /\ LET r == DataSerializer_serialize(args.output_format, combined_rooms)
       IN  IF r.ok
           THEN /\ pc' = "serialized"
                /\ output_data' = r.text
                /\ err' = err
           ELSE /\ pc' = "serialize_failed"
                /\ err' = r.err
                /\ output_data' = output_data
    /\ UNCHANGED <<args, files, students, rooms, combined_rooms, stdout, reloaded>>

Printed(kind, text, path) == [kind |-> kind, text |-> text, path |-> path]

\* main, lines 206-211: write the destination and print the confirmation,
\* or print the text.  open() of a directory raises and writes nothing.
Emit ==
    /\ pc = "serialized"
    /\ IF args.output_destination = ""
       THEN /\ stdout' = Append(stdout, Printed("output", output_data, ""))
            /\ pc' = "done"
            /\ UNCHANGED <<files, err>>
       ELSE IF files[args.output_destination].kind = "directory"
       THEN /\ pc' = "emit_failed"
            /\ err' = Error("IsADirectoryError", <<>>)
            /\ UNCHANGED <<files, stdout>>
       ELSE /\ files' = [files EXCEPT ![args.output_destination] = output_data]
            /\ stdout' = Append(stdout,
                                Printed("confirmation", Garbage, args.output_destination))
            /\ pc' = "done"
            /\ err' = err
    /\ UNCHANGED <<args, students, rooms, combined_rooms, output_data, reloaded>>

Next == Load \/ Combine \/ Serialize \/ Emit

Spec == Init /\ [][Next]_vars
\* ------------------------------------------------- the core, on its own

\* Students and rooms a loader can return: the XML loader returns None
\* for an empty name, the JSON loader any value for any field.
CoreStudents ==
    { Student(PyInt(1), PyStr(<<"A", "n">>), PyInt(10)),
      Student(PyInt(2), PyStr(<<"B", "o">>), PyInt(20)),
      Student(PyInt(3), PyStr(<<"NUL">>), PyInt(10)),
      Student(PyInt(4), PyInt(7), PyList(<<>>)) }

CoreRooms ==
    { Room(PyInt(10), PyStr(<<"A", "&">>)),
      Room(PyInt(20), PyStr(<<"B", "CR">>)),
      Room(PyInt(10), None),
      Room(PyInt(30), PyStr(<<>>)),
      Room(PyStr(<<"x">>), PyInt(7)) }

\* A file of the format without a record: [] and <Students />.
EmptyFile(format) ==
    IF format = "json" THEN JsonFile(<<>>) ELSE XmlFile(Written("Students", <<>>, <<>>))

InitCore ==
    /\ pc = "loaded"
    /\ \E f \in Formats : args = Args(f, f, "")
    /\ files = [p \in {StudentsPath, RoomsPath, DestPath} |-> Absent]
    /\ students \in SeqsUpTo(CoreStudents, MaxStudents)
    /\ rooms \in SeqsUpTo(CoreRooms, MaxRooms)
    /\ combined_rooms = <<>>
    /\ output_data = Garbage
    /\ stdout = <<>>
    /\ err = NoError
    /\ reloaded = NotReloaded

\* The round trip of section 8: the serialized text is loaded by the loader
\* of its own format, once as the rooms file and once as the students file,
\* the other file holding no record.
Reload ==
    /\ pc = "serialized"
    /\ reloaded' =
          [as_rooms |->
              DataLoader_load(args.output_format, StudentsPath, RoomsPath,
                  [p \in {StudentsPath, RoomsPath} |->
                      IF p = RoomsPath THEN output_data
                      ELSE EmptyFile(args.output_format)]),
           as_students |->
              DataLoader_load(args.output_format, StudentsPath, RoomsPath,
                  [p \in {StudentsPath, RoomsPath} |->
                      IF p = StudentsPath THEN output_data
                      ELSE EmptyFile(args.output_format)])]
    /\ pc' = "reloaded"
    /\ UNCHANGED <<args, files, students, rooms, combined_rooms, output_data,
                   stdout, err>>

NextCore == Combine \/ Serialize \/ Reload

SpecCore == InitCore /\ [][NextCore]_vars
\* ------------------------------------------------------ claims: combiner

\* The students of S whose room_id equals key, in S's order.
Matching(S, key) == SelectSeq(S, LAMBDA s : s.room_id = key)
Contains(xs, x) == \E i \in 1..Len(xs) : xs[i] = x
\* The positions of the rooms whose student sequence holds student.
RoomsHolding(student) ==
    {i \in 1..Len(combined_rooms) : Contains(combined_rooms[i].students, student)}
DistinctRoomIds ==
    \A i, j \in 1..Len(rooms) : rooms[i].id = rooms[j].id => i = j

\* C1: once combine_rooms has returned, every room holds exactly the
\* students of S whose room_id equals its id, each as often as S lists it
\* and in S's order.
C1_GroupingCorrect ==
    pc = "combined" =>
        \A i \in 1..Len(combined_rooms) :
            combined_rooms[i].students = Matching(students, combined_rooms[i].id)

\* C1 witness: a room got the first and the third student of S, in that
\* order, while the second one belongs to another room.
C1_Witness ==
    /\ pc = "combined"
    /\ Len(students) = 3
    /\ students[1] # students[3]
    /\ students[2].room_id # students[1].room_id
    /\ \E i \in 1..Len(combined_rooms) :
          combined_rooms[i].students = <<students[1], students[3]>>

\* C2: the returned list has the length of the loaded one and the same id
\* and name at every position, and a room no student matches is there
\* with an empty student sequence.
C2_RoomsKept ==
    pc = "combined" =>
        /\ Len(combined_rooms) = Len(rooms)
        /\ \A i \in 1..Len(rooms) :
              /\ combined_rooms[i].id = rooms[i].id
              /\ combined_rooms[i].name = rooms[i].name
              /\ (\A k \in 1..Len(students) : students[k].room_id # rooms[i].id)
                    => combined_rooms[i].students = <<>>

\* C2 witness: of two rooms, the first one has students and the second
\* one has none.
C2_Witness ==
    /\ pc = "combined"
    /\ Len(rooms) = 2
    /\ combined_rooms[1].students # <<>>
    /\ combined_rooms[2].students = <<>>
    /\ combined_rooms[2].id # combined_rooms[1].id

\* C3, as claimed: whenever S holds a student whose room_id is the id of no
\* room, combine_rooms ends without an exception and no room of the result
\* holds that student.
C3_UnmatchedDroppedWithoutError ==
    \A k \in 1..Len(students) :
        (\A j \in 1..Len(rooms) : rooms[j].id # students[k].room_id) =>
            /\ pc # "combine_failed"
            /\ RoomsHolding(students[k]) = {}

\* C4, as claimed: every student of S is in the student sequence of at most
\* one room of the result.
C4_AtMostOneRoom ==
    pc = "combined" =>
        \A k \in 1..Len(students) : Cardinality(RoomsHolding(students[k])) <= 1

\* C4, amended: a student of S is only in rooms whose id equals its
\* room_id, so in at most one room when the ids of the rooms differ.
C4_OnlyRoomsOfItsId ==
    pc = "combined" =>
        \A k \in 1..Len(students) :
            /\ \A i \in RoomsHolding(students[k]) :
                  combined_rooms[i].id = students[k].room_id
            /\ DistinctRoomIds => Cardinality(RoomsHolding(students[k])) <= 1

\* C4 witness: two rooms with different ids, one of them holding a student,
\* and a student no room holds.
C4_Witness ==
    /\ pc = "combined"
    /\ Len(rooms) = 2
    /\ DistinctRoomIds
    /\ \E k \in 1..Len(students) : Cardinality(RoomsHolding(students[k])) = 1
    /\ \E k \in 1..Len(students) : RoomsHolding(students[k]) = {}
\* --------------------------------------------------- claims: serializers

Keys(d) == {d[i][1] : i \in 1..Len(d)}

\* The object written for student s: exactly id, name and room_id, with
\* the student's values.
IsStudentObject(o, s) ==
    /\ Len(o) = 3
    /\ Keys(o) = {"id", "name", "room_id"}
    /\ Get(o, "id") = s.id
    /\ Get(o, "name") = s.name
    /\ Get(o, "room_id") = s.room_id

\* C5: the JSON text holds one object per room, in the rooms' order, each
\* with exactly id, name and students, and students holds one object per
\* attached student, in the room's order, each with exactly id, name and
\* room_id and that student's values.
C5_JsonShape ==
    (pc = "serialized" /\ args.output_format = "json") =>
        /\ output_data.kind = "json"
        /\ Len(output_data.body) = Len(combined_rooms)
        /\ \A i \in 1..Len(combined_rooms) :
              LET o == output_data.body[i]
                  r == combined_rooms[i]
              IN  /\ Len(o) = 3
                  /\ Keys(o) = {"id", "name", "students"}
                  /\ Get(o, "id") = r.id
                  /\ Get(o, "name") = r.name
                  /\ Get(o, "students").t = "list"
                  /\ Len(Get(o, "students").items) = Len(r.students)
                  /\ \A k \in 1..Len(r.students) :
                        IsStudentObject(Get(o, "students").items[k], r.students[k])

\* C5 witness: JSON text for two rooms, the first with two different
\* students and the second with none.
C5_Witness ==
    /\ pc = "serialized"
    /\ args.output_format = "json"
    /\ Len(combined_rooms) = 2
    /\ Len(combined_rooms[1].students) = 2
    /\ combined_rooms[1].students[1] # combined_rooms[1].students[2]
    /\ combined_rooms[2].students = <<>>

\* The rooms file loaded back has the same id and name at every position.
RoomsRecovered ==
    /\ reloaded.as_rooms.ok
    /\ Len(reloaded.as_rooms.rooms) = Len(combined_rooms)
    /\ \A i \in 1..Len(combined_rooms) :
          /\ reloaded.as_rooms.rooms[i].id = combined_rooms[i].id
          /\ reloaded.as_rooms.rooms[i].name = combined_rooms[i].name

RECURSIVE Attached(_)
Attached(rs) == IF rs = <<>> THEN <<>> ELSE Head(rs).students \o Attached(Tail(rs))

\* The student data comes back: in the rooms loaded back, or as the
\* students the same text loads to.
StudentsRecovered ==
    \/ /\ reloaded.as_rooms.ok
       /\ Len(reloaded.as_rooms.rooms) = Len(combined_rooms)
       /\ \A i \in 1..Len(combined_rooms) :
             reloaded.as_rooms.rooms[i].students = combined_rooms[i].students
    \/ /\ reloaded.as_students.ok
       /\ reloaded.as_students.students = Attached(combined_rooms)

HasChar(v, c) == IsStr(v) /\ Contains(v.s, c)
\* A name the XML text gives back unchanged: None, or a text that is not
\* empty and holds no carriage return and no U+0000.
XmlKeepsName(name) ==
    \/ name = None
    \/ IsStr(name) /\ name.s # <<>> /\ ~HasChar(name, "CR") /\ ~HasChar(name, "NUL")
\* The XML text is well-formed and gives every room's id and name back.
XmlKeepsRooms ==
    \A i \in 1..Len(combined_rooms) :
        /\ IsInt(combined_rooms[i].id)
        /\ XmlKeepsName(combined_rooms[i].name)
        /\ \A k \in 1..Len(combined_rooms[i].students) :
              ~HasChar(combined_rooms[i].students[k].name, "NUL")

StudentsFile == files[args.students_file]
RoomsFile == files[args.rooms_file]

\* A JSON record that lacks one of the keys, or holds a value of the wrong
\* type under one: ids are integers, a name is a text.
JsonRecordBad(d, int_keys) ==
    \/ \E k \in int_keys \cup {"name"} : ~HasKey(d, k)
    \/ \E k \in int_keys : HasKey(d, k) /\ ~IsInt(Get(d, k))
    \/ HasKey(d, "name") /\ ~IsStr(Get(d, "name"))
JsonInputBad ==
    \/ /\ StudentsFile.kind = "json"
       /\ \E i \in 1..Len(StudentsFile.body) :
             JsonRecordBad(StudentsFile.body[i], {"id", "room"})
    \/ /\ RoomsFile.kind = "json"
       /\ \E i \in 1..Len(RoomsFile.body) : JsonRecordBad(RoomsFile.body[i], {"id"})

WellTyped ==
    /\ \A i \in 1..Len(students) :
          IsInt(students[i].id) /\ IsStr(students[i].name) /\ IsInt(students[i].room_id)
    /\ \A i \in 1..Len(rooms) : IsInt(rooms[i].id) /\ IsStr(rooms[i].name)

\* C7, as claimed: the JSON load fails, returning nothing, whenever a
\* record lacks a required field or holds a value of the wrong type, and
\* no student or room is built from such a record.
C7_JsonRejectsBadRecords ==
    (args.input_format = "json" /\ pc # "start") =>
        /\ JsonInputBad => (pc = "load_failed" /\ students = <<>> /\ rooms = <<>>)
        /\ WellTyped

\* The file at path is not well-formed XML.
Malformed(file) ==
    \/ file.kind # "xml"
    \/ ~WrittenOk(file.body)

\* An element as written that has the child and a value in it.
HasValue(w, tag) ==
    \E i \in 1..Len(w.children) : w.children[i].tag = tag /\ w.children[i].content # <<>>
\* The value of the first child with the tag is an integer literal.
HasIntValue(w, tag) ==
    /\ \E i \in 1..Len(w.children) : w.children[i].tag = tag
    /\ LET i == CHOOSE i \in 1..Len(w.children) :
                   /\ w.children[i].tag = tag
                   /\ \A j \in 1..(i - 1) : w.children[j].tag # tag
       IN  /\ w.children[i].content # <<>>
           /\ IntOf(PyStr(DecodeContent(w.children[i].content))).ok
HasNameChild(w) == \E i \in 1..Len(w.children) : w.children[i].tag = "name"

\* Every student element of the students file converts to a Student.
StudentElementsConvert ==
    \A i \in 1..Len(StudentsFile.body.children) :
        LET w == StudentsFile.body.children[i]
        IN  HasIntValue(w, "id") /\ HasNameChild(w) /\ HasIntValue(w, "room")

\* C8, as claimed: with a malformed students or rooms file the XML load
\* fails with the parse error that names the malformed file, the students
\* file if that one is malformed and else the rooms file, and returns
\* nothing.
C8_ParseErrorNamesMalformedFile ==
    (args.input_format = "xml" /\ pc # "start"
        /\ (Malformed(StudentsFile) \/ Malformed(RoomsFile))) =>
        /\ pc = "load_failed"
        /\ students = <<>> /\ rooms = <<>>
        /\ err = Error("ValueError",
                       <<"Error parsing XML file: ",
                         IF Malformed(StudentsFile) THEN args.students_file
                         ELSE args.rooms_file>>)

\* C8, amended: the load fails and returns nothing; the error names the
\* students file when that one is malformed, and the rooms file when the
\* rooms file is malformed and every element of the well-formed students
\* file converts; when an element of a well-formed students file does not
\* convert, the error is that conversion's, whatever the rooms file is.
C8_ParseErrorNamesFileReached ==
    (args.input_format = "xml" /\ pc # "start"
        /\ (Malformed(StudentsFile) \/ Malformed(RoomsFile))) =>
        /\ pc = "load_failed"
        /\ students = <<>> /\ rooms = <<>>
        /\ Malformed(StudentsFile) =>
              err = Error("ValueError", <<"Error parsing XML file: ", args.students_file>>)
        /\ (~Malformed(StudentsFile) /\ StudentElementsConvert) =>
              err = Error("ValueError", <<"Error parsing XML file: ", args.rooms_file>>)
        /\ (~Malformed(StudentsFile) /\ ~StudentElementsConvert) =>
              /\ err.kind \in {"AttributeError", "TypeError", "ValueError"}
              /\ err.msg = <<>>

\* C8 witness: the students file holds a student that converts, the rooms
\* file is malformed, and the load has failed.
C8_Witness ==
    /\ args.input_format = "xml"
    /\ pc = "load_failed"
    /\ ~Malformed(StudentsFile)
    /\ StudentsFile.body.children # <<>>
    /\ StudentElementsConvert
    /\ Malformed(RoomsFile)

\* An element of an XML input file lacks the value of a required field.
XmlValueMissing ==
    \/ /\ ~Malformed(StudentsFile)
       /\ \E i \in 1..Len(StudentsFile.body.children) :
             \E tag \in {"id", "name", "room"} :
                 ~HasValue(StudentsFile.body.children[i], tag)
    \/ /\ ~Malformed(RoomsFile)
       /\ \E i \in 1..Len(RoomsFile.body.children) :
             \E tag \in {"id", "name"} : ~HasValue(RoomsFile.body.children[i], tag)

\* C10, as claimed: the XML load fails whenever a Student element lacks an
\* id, name or room value or a Room element an id or name value, and what
\* it returns has integer ids and text names.
C10_XmlRejectsMissingValues ==
    (args.input_format = "xml" /\ pc # "start") =>
        /\ XmlValueMissing => pc = "load_failed"
        /\ WellTyped

\* ---------------------------------------------------- claims: the pipeline

\* The destination is as it was before the run.
DestinationUntouched == files[DestPath].kind \in {"absent", "old", "directory"}

\* C9: whenever something has been printed or the destination written, the
\* run is past load, combine and serialize without an exception, and what
\* was emitted is the text of that one serialization; a run that failed
\* has printed nothing and has left the destination as it was.
C9_OutputOnlyAfterSuccess ==
    (stdout # <<>> \/ ~DestinationUntouched) =>
        LET l == DataLoader_load(args.input_format, args.students_file,
                                 args.rooms_file, files)
            c == combine(l.students, l.rooms)
            s == DataSerializer_serialize(args.output_format, c.rooms)
        IN  /\ pc = "done"
            /\ err = NoError
            /\ l.ok /\ c.ok /\ s.ok
            /\ Len(stdout) = 1
            /\ IF args.output_destination = ""
               THEN stdout[1] = Printed("output", s.text, "") /\ DestinationUntouched
               ELSE /\ files[args.output_destination] = s.text
                    /\ stdout[1] = Printed("confirmation", Garbage, args.output_destination)

\* C9 witness: a run with a destination that holds earlier content has
\* loaded and combined, and failed in the serializer.
C9_Witness ==
    /\ pc = "serialize_failed"
    /\ args.output_destination = DestPath
    /\ files[DestPath] = OldContent
    /\ stdout = <<>>
====
